---------------------------- MODULE Spec2Model ----------------------------
(***************************************************************************)
(* Model of package clog (github.com/mewpkg/clog): the level registry and   *)
(* the caller-attributed emitter.                                           *)
(*                                                                          *)
(* The emitter with outputMutex and hierarchical PathLevel                  *)
(* (src/unnamed/part_001) is modelled as a state machine of threads that    *)
(* call the package's functions; one action is one step of a function       *)
(* between two points where other threads can interleave (a lock            *)
(* acquisition, a critical section up to its unlock, one unlocked access    *)
(* to a package variable, one Write on a sink).  The skip functions of the  *)
(* two earlier versions (src/clog.go, src/unnamed/part_000) are modelled    *)
(* as operators.                                                            *)
(*                                                                          *)
(* A string is a sequence of tokens: "/" and "." stand for themselves, any  *)
(* other token is a maximal run of other characters ("a", "main", "F").     *)
(* strings.Index, strings.LastIndex, slicing and filepath.Dir act on the    *)
(* token sequence as they act on the bytes.                                 *)
(***************************************************************************)
EXTENDS Integers, Sequences, FiniteSets, TLC

VARIABLES
    activeLevel,     \* map[string]Level: the registry
    mu,              \* sync.Mutex guarding activeLevel: NoThread or its holder
    outputMutex,     \* sync.Mutex around the writes: NoThread or its holder
    output,          \* tier -> writer: debugOutput, infoOutput, warnOutput, errorOutput
    usePrefix,       \* tier -> BOOLEAN: debugUsePrefix, ..., errorUsePrefix
    mainPrefixName,  \* string
    sink,            \* writer -> the sequence of Write calls it received
    exited,          \* <<>> while the process runs, <<status>> after os.Exit(status)
    thr,             \* thread -> its current (or last) call: arguments, locals, position
    nops             \* number of calls started so far

vars == <<activeLevel, mu, outputMutex, output, usePrefix, mainPrefixName,
          sink, exited, thr, nops>>

(***************************************************************************)
(* Bounds and input sets                                                    *)
(***************************************************************************)
\* calls the host program makes in one run
MaxOps == 2

Threads == {"t1", "t2"}
NoThread == "none"

Writers == {"stderr", "buf"}

Tiers == {"debug", "info", "warn", "error"}
Variants == {"print", "printf", "println"}

(***************************************************************************)
(* Levels                                                                   *)
(***************************************************************************)
LevelDebug == -4
LevelInfo == 0
LevelWarn == 4
LevelError == 8

\* the Level constant each tier's entry points pass to skip
TierLevel(tier) ==
    CASE tier = "debug" -> LevelDebug
      [] tier = "info" -> LevelInfo
      [] tier = "warn" -> LevelWarn
      [] tier = "error" -> LevelError

(***************************************************************************)
(* Strings                                                                  *)
(***************************************************************************)
SetMax(S) == CHOOSE x \in S : \A y \in S : y <= x
SetMin(S) == CHOOSE x \in S : \A y \in S : x <= y

\* strings.LastIndex(s, c), 1-based; 0 where Go returns -1
LastIndex(s, c) ==
    LET I == {i \in 1..Len(s) : s[i] = c}
    IN IF I = {} THEN 0 ELSE SetMax(I)

\* strings.Index(s, c), 1-based; 0 where Go returns -1
Index(s, c) ==
    LET I == {i \in 1..Len(s) : s[i] = c}
    IN IF I = {} THEN 0 ELSE SetMin(I)

\* s[:n]
Prefix(s, n) == SubSeq(s, 1, n)
\* s[n:]
Suffix(s, n) == SubSeq(s, n + 1, Len(s))

\* the elements of path between separators, in order ("" elements included)
RECURSIVE Split(_)
Split(path) ==
    LET i == Index(path, "/")
    IN IF i = 0 THEN <<path>>
       ELSE <<Prefix(path, i - 1)>> \o Split(Suffix(path, i))

RECURSIVE Join(_)
Join(elems) ==
    IF elems = <<>> THEN <<>>
    ELSE IF Len(elems) = 1 THEN elems[1]
    ELSE elems[1] \o <<"/">> \o Join(Tail(elems))

\* filepath.Clean's pass over the elements: out is the stack of kept elements
RECURSIVE CleanElems(_, _, _)
CleanElems(elems, out, rooted) ==
    IF elems = <<>> THEN out
    ELSE LET e == Head(elems)
             rest == Tail(elems)
         IN IF e = <<>> \/ e = <<".">>
            THEN CleanElems(rest, out, rooted)
            ELSE IF e = <<".", ".">>
            THEN IF out # <<>> /\ out[Len(out)] # <<".", ".">>
                 THEN CleanElems(rest, Prefix(out, Len(out) - 1), rooted)
                 ELSE IF ~rooted
                 THEN CleanElems(rest, Append(out, e), rooted)
                 ELSE CleanElems(rest, out, rooted)
            ELSE CleanElems(rest, Append(out, e), rooted)

\* filepath.Clean(path) (Unix)
Clean(path) ==
    IF path = <<>> THEN <<".">>
    ELSE LET rooted == path[1] = "/"
             body == Join(CleanElems(Split(path), <<>>, rooted))
         IN IF rooted THEN <<"/">> \o body
            ELSE IF body = <<>> THEN <<".">>
            ELSE body

\* filepath.Dir(path) (Unix): all but the last element of path, cleaned
Dir(path) == Clean(Prefix(path, LastIndex(path, "/")))

\* getPkgPath(name): the package path of a path-qualified function name
getPkgPath(name) ==
    LET slash == LastIndex(name, "/")
        dot == Index(Suffix(name, slash), ".")
        end == IF dot # 0 THEN slash + dot - 1 ELSE slash
    IN Prefix(name, end)

\* getPkgName(name): the package name of a path-qualified function name
getPkgName(name) ==
    LET base == Suffix(name, LastIndex(name, "/"))
        dot == Index(base, ".")
        pkg == IF dot # 0 THEN Prefix(base, dot - 1) ELSE base
    IN IF pkg = <<"main">> /\ Len(mainPrefixName) > 0
       THEN mainPrefixName
       ELSE pkg

(***************************************************************************)
(* The registry                                                             *)
(***************************************************************************)
NoLevels == <<>>

\* (mutant of MapStore) an entry that exists is kept: the first write wins
MapStoreIfAbsent(m, path, level) ==
    [k \in DOMAIN m \cup {path} |-> IF k \in DOMAIN m THEN m[k] ELSE level]

\* activeLevel[path] = level
MapStore(m, path, level) ==
    [k \in DOMAIN m \cup {path} |-> IF k = path THEN level ELSE m[k]]

\* (mutant of PathLevel) `if` for `for`: only the parent directory is tried
PathLevelOneAscent(m, path) ==
    IF path \in DOMAIN m THEN <<m[path], TRUE>>
    ELSE IF Dir(path) \in DOMAIN m THEN <<m[Dir(path)], TRUE>>
    ELSE <<0, FALSE>>

\* PathLevel's body in part_001 (hierarchical): <<level, ok>>
RECURSIVE PathLevel(_, _)
PathLevel(m, path) ==
    IF path \in DOMAIN m THEN <<m[path], TRUE>>
    ELSE LET dir == Dir(path)
         IN IF Len(dir) = 0 \/ dir = path THEN <<0, FALSE>>
            ELSE PathLevel(m, dir)

\* PathLevel's body in clog.go and part_000 (exact match): <<level, ok>>
PathLevelExact(m, path) ==
    IF path \in DOMAIN m THEN <<m[path], TRUE>> ELSE <<0, FALSE>>

(***************************************************************************)
(* Threads and calls                                                        *)
(***************************************************************************)
\* a call of one of the package's functions, with its arguments:
\*   emit             Debug*, Info*, Warn*, Fatal* (tier, variant), called from
\*                    the function fn; ok is what callerName reports for the
\*                    caller's frame
\*   SetPathLevel     (path, level)
\*   PathLevel        (path)
\*   SetOutput        Set<Tier>Output(w)
\*   SetPrefix        Set<Tier>Prefix(flag)
\*   SetMainPrefixName(name)
\*   skip             skip(cur) as the entry points of one version of the package
\*                    call it (ver: "clog.go", "part_000", "part_001"), for the
\*                    caller fn and cur the level of tier, run to its return
NoCall ==
    [op |-> "none", tier |-> "debug", variant |-> "print", fn |-> <<>>, ok |-> FALSE,
     path |-> <<>>, level |-> 0, w |-> "stderr", flag |-> FALSE, name |-> <<>>,
     ver |-> "part_001"]

EmitCall(tier, variant, fn, ok) ==
    [NoCall EXCEPT !.op = "emit", !.tier = tier, !.variant = variant, !.fn = fn, !.ok = ok]
SetPathLevelCall(path, level) ==
    [NoCall EXCEPT !.op = "SetPathLevel", !.path = path, !.level = level]
PathLevelCall(path) ==
    [NoCall EXCEPT !.op = "PathLevel", !.path = path]
SetOutputCall(tier, w) ==
    [NoCall EXCEPT !.op = "SetOutput", !.tier = tier, !.w = w]
SetPrefixCall(tier, flag) ==
    [NoCall EXCEPT !.op = "SetPrefix", !.tier = tier, !.flag = flag]
SetMainPrefixNameCall(name) ==
    [NoCall EXCEPT !.op = "SetMainPrefixName", !.name = name]
SkipCall(ver, tier, fn, ok) ==
    [NoCall EXCEPT !.op = "skip", !.ver = ver, !.tier = tier, !.fn = fn, !.ok = ok]

\* callerName(skip): <<pathQualifiedName, ok>> for the frame of the function that
\* called the entry point; the frame is the same for getQualifiedPaths
\* (skip 3, below skip), getPrefix and getFileLine (skip 2)
callerName(c) == IF c.ok THEN <<c.fn, TRUE>> ELSE <<<<>>, FALSE>>

\* getQualifiedPaths(): <<pkgPath, funcPath>>
getQualifiedPaths(c) ==
    LET cn == callerName(c)
    IN IF ~cn[2] THEN <<<<>>, <<>>>>
       ELSE <<getPkgPath(cn[1]), cn[1]>>

\* getPrefix(colorFunc): the package name it renders, <<>> for the empty prefix
getPrefix(c) ==
    LET cn == callerName(c)
    IN IF ~cn[2] THEN <<>> ELSE getPkgName(cn[1])

\* getFileLine(): whether it returns the "<file>:<line>: " tag
getFileLine(c) == callerName(c)[2]

\* the position a call starts at
Entry(c) ==
    CASE c.op = "emit" -> "func_lock"
      [] c.op = "SetPathLevel" -> "set_lock"
      [] c.op = "PathLevel" -> "get_lock"
      [] c.op = "SetOutput" -> "output_lock"
      [] c.op = "SetPrefix" -> "prefix_store"
      [] c.op = "SetMainPrefixName" -> "name_store"
      [] c.op = "skip" -> "skip"

\* (mutant of SkipIf) >= for >
SkipIfNotBelow(level, cur) == level >= cur

\* skip(cur)'s return value once a lookup has found level
SkipIf(level, cur) == level > cur

\* skip(cur) of part_001 for the caller of call c, when the registry is m at
\* both of its lookups
skip(m, c, cur) ==
    LET q == getQualifiedPaths(c)
        f == PathLevel(m, q[2])
        k == PathLevel(m, q[1])
    IN IF f[2] THEN SkipIf(f[1], cur)
       ELSE IF k[2] THEN SkipIf(k[1], cur)
       ELSE FALSE

\* skip(cur) of clog.go
skipClog(m, c, cur) ==
    LET q == getQualifiedPaths(c)
        f == PathLevelExact(m, q[2])
        k == PathLevelExact(m, q[1])
    IN IF f[2] THEN f[1] > cur
       ELSE IF k[2] THEN k[1] > cur
       ELSE FALSE

\* skip(cur) of part_000
skip000(m, c, cur) ==
    LET q == getQualifiedPaths(c)
        f == PathLevelExact(m, q[2])
        k == PathLevelExact(m, q[1])
    IN IF f[2] /\ f[1] > cur THEN TRUE
       ELSE IF k[2] /\ k[1] > cur THEN TRUE
       ELSE FALSE

\* the locals of a call: id numbers the calls in the order they start;
\* pkgPath, funcPath are skip's; res is what PathLevel returned last; by is the
\* lookup that decided skip ("func", "pkg", "none"); skipped is <<skip's
\* result>> (<<>> before it returns); prefixed is <<the branch taken at
\* `if <tier>UsePrefix`>> (<<>> before it is read).
\* at is a history field, read by no action: the settings in force when the
\* call started (sink, prefix flag and skip decision of the call's tier and
\* caller, mainPrefixName), and quiet, whether no configuration call of
\* another thread was in progress then.
\* lin is a history field, read by no action: the decisions skip's rule gives
\* on the registry states that existed since skip was entered.
NoSettings ==
    [out |-> "stderr", pre |-> TRUE, name |-> <<>>, skip |-> FALSE, quiet |-> TRUE]

Idle ==
    [pc |-> "idle", id |-> 0, call |-> NoCall, pkgPath |-> <<>>, funcPath |-> <<>>,
     res |-> <<0, FALSE>>, by |-> "-", skipped |-> <<>>, prefixed |-> <<>>,
     at |-> NoSettings, lin |-> {}]

Running(p) == thr[p].pc \notin {"idle", "done", "exit"}

ConfigOps == {"SetPathLevel", "SetOutput", "SetPrefix", "SetMainPrefixName"}

SettingsAt(p, c) ==
    [out |-> output[c.tier], pre |-> usePrefix[c.tier], name |-> mainPrefixName,
     skip |-> skip(activeLevel, c, TierLevel(c.tier)),
     quiet |-> \A q \in DOMAIN thr \ {p} : ~(Running(q) /\ thr[q].call.op \in ConfigOps)]

\* a thread calls c: the entry point is entered; for an emission skip(cur)
\* is entered and getQualifiedPaths has inspected the stack
Call(p, c) ==
    /\ exited = <<>>
    /\ thr[p].pc \in {"idle", "done"}
    /\ nops' = nops + 1
    /\ thr' = [thr EXCEPT ![p] =
                 [Idle EXCEPT !.pc = Entry(c), !.id = nops + 1, !.call = c,
                              !.pkgPath = IF c.op = "emit" THEN getQualifiedPaths(c)[1] ELSE <<>>,
                              !.funcPath = IF c.op = "emit" THEN getQualifiedPaths(c)[2] ELSE <<>>,
                              !.at = IF c.op = "emit" THEN SettingsAt(p, c) ELSE NoSettings,
                              !.lin = IF c.op = "emit"
                                      THEN {skip(activeLevel, c, TierLevel(c.tier))}
                                      ELSE {}]]
    /\ UNCHANGED <<activeLevel, mu, outputMutex, output, usePrefix, mainPrefixName,
                   sink, exited>>

\* skip(cur) of the call's version, from its call to its return
SkipReturn(p) ==
    /\ exited = <<>>
    /\ thr[p].pc = "skip"
    /\ thr' = [thr EXCEPT ![p].pc = "done",
                          ![p].skipped =
                             LET c == thr[p].call
                             IN CASE c.ver = "clog.go" -> <<skipClog(activeLevel, c, TierLevel(c.tier))>>
                                  [] c.ver = "part_000" -> <<skip000(activeLevel, c, TierLevel(c.tier))>>
                                  [] c.ver = "part_001" -> <<skip(activeLevel, c, TierLevel(c.tier))>>]
    /\ UNCHANGED <<activeLevel, mu, outputMutex, output, usePrefix, mainPrefixName,
                   sink, exited, nops>>

(***************************************************************************)
(* The registry's functions                                                 *)
(***************************************************************************)
\* SetPathLevel: mu.Lock()
SetPathLevelLock(p) ==
    /\ exited = <<>>
    /\ thr[p].pc = "set_lock"
    /\ mu = NoThread
    /\ mu' = p
    /\ thr' = [thr EXCEPT ![p].pc = "set_store"]
    /\ UNCHANGED <<activeLevel, outputMutex, output, usePrefix, mainPrefixName,
                   sink, exited, nops>>

\* the locals of a thread after another thread's store made the registry m:
\* a call inside skip records the decision of skip's rule on m (history)
Observes(t, m) ==
    IF t.call.op = "emit" /\ t.pc \in {"func_lock", "func", "pkg_lock", "pkg"}
    THEN [t EXCEPT !.lin = @ \cup {skip(m, t.call, TierLevel(t.call.tier))}]
    ELSE t

\* SetPathLevel: activeLevel[path] = level; the deferred mu.Unlock()
SetPathLevelStore(p) ==
    /\ exited = <<>>
    /\ thr[p].pc = "set_store"
    /\ activeLevel' = MapStore(activeLevel, thr[p].call.path, thr[p].call.level)
    /\ mu' = NoThread
    /\ thr' = [q \in Threads |->
                 IF q = p THEN [thr[p] EXCEPT !.pc = "done"]
                 ELSE Observes(thr[q], activeLevel')]
    /\ UNCHANGED <<outputMutex, output, usePrefix, mainPrefixName, sink, exited, nops>>

\* PathLevel: mu.Lock(), called by the host program or by skip
PathLevelLock(p) ==
    /\ exited = <<>>
    /\ thr[p].pc \in {"get_lock", "func_lock", "pkg_lock"}
    /\ mu = NoThread
    /\ mu' = p
    /\ thr' = [thr EXCEPT ![p].pc =
                 CASE thr[p].pc = "get_lock" -> "get"
                   [] thr[p].pc = "func_lock" -> "func"
                   [] thr[p].pc = "pkg_lock" -> "pkg"]
    /\ UNCHANGED <<activeLevel, outputMutex, output, usePrefix, mainPrefixName,
                   sink, exited, nops>>

\* skip(cur) after PathLevel(funcPath) returned r: the thread's next locals
SkipFunc(t, r) ==
    IF r[2]
    THEN LET s == SkipIf(r[1], TierLevel(t.call.tier))
         IN [t EXCEPT !.res = r, !.by = "func", !.skipped = <<s>>,
                      !.pc = IF s THEN "done" ELSE "out_lock"]
    ELSE [t EXCEPT !.res = r, !.pc = "pkg_lock"]

\* skip(cur) after PathLevel(pkgPath) returned r: the thread's next locals
SkipPkg(t, r) ==
    IF r[2]
    THEN LET s == SkipIf(r[1], TierLevel(t.call.tier))
         IN [t EXCEPT !.res = r, !.by = "pkg", !.skipped = <<s>>,
                      !.pc = IF s THEN "done" ELSE "out_lock"]
    ELSE [t EXCEPT !.res = r, !.by = "none", !.skipped = <<FALSE>>, !.pc = "out_lock"]

\* (mutant of PathLevelReturn) a lookup that found an ancestor's level
\* installs it for the path it was asked for
PathLevelReturnCaching(p) ==
    /\ exited = <<>>
    /\ thr[p].pc \in {"get", "func", "pkg"}
    /\ mu' = NoThread
    /\ LET path == CASE thr[p].pc = "get" -> thr[p].call.path
                      [] thr[p].pc = "func" -> thr[p].funcPath
                      [] thr[p].pc = "pkg" -> thr[p].pkgPath
           r == PathLevel(activeLevel, path)
       IN /\ activeLevel' = IF r[2] THEN MapStore(activeLevel, path, r[1]) ELSE activeLevel
          /\ thr' = [thr EXCEPT ![p] =
                       CASE thr[p].pc = "get" -> [thr[p] EXCEPT !.res = r, !.pc = "done"]
                         [] thr[p].pc = "func" -> SkipFunc(thr[p], r)
                         [] thr[p].pc = "pkg" -> SkipPkg(thr[p], r)]
    /\ UNCHANGED <<outputMutex, output, usePrefix, mainPrefixName, sink, exited, nops>>

\* PathLevel: the lookup loop and the deferred mu.Unlock(); control returns
\* to the host program or to skip, which runs on to its next call or return
PathLevelReturn(p) ==
    /\ exited = <<>>
    /\ thr[p].pc \in {"get", "func", "pkg"}
    /\ mu' = NoThread
    /\ thr' = [thr EXCEPT ![p] =
                 CASE thr[p].pc = "get" ->
                        [thr[p] EXCEPT !.res = PathLevel(activeLevel, thr[p].call.path),
                                       !.pc = "done"]
                   [] thr[p].pc = "func" ->
                        SkipFunc(thr[p], PathLevel(activeLevel, thr[p].funcPath))
                   [] thr[p].pc = "pkg" ->
                        SkipPkg(thr[p], PathLevel(activeLevel, thr[p].pkgPath))]
    /\ UNCHANGED <<activeLevel, outputMutex, output, usePrefix, mainPrefixName,
                   sink, exited, nops>>

(***************************************************************************)
(* The emitter: Debug, Debugf, Debugln, ..., Fatal, Fatalf, Fatalln         *)
(***************************************************************************)
\* one Write call on a sink, made by call id of the given tier: part is
\* "prefix" (pkg is the package name in the tag, <<>> for an empty prefix;
\* fileLine tells whether the file:line tag follows it), "body", "newline",
\* or "line" (Fprintln(args...): body and newline in one Write)
Piece(t, part, pkg, fileLine) ==
    [id |-> t.id, tier |-> t.call.tier, part |-> part, pkg |-> pkg, fileLine |-> fileLine]

\* fmt.Fprint*(w, ...): the writer receives one more Write
Fprint(w, piece) == [sink EXCEPT ![w] = Append(@, piece)]

\* (mutant of TierFileLine) the info entry points append getFileLine() too
TierFileLineInfo(tier) == tier \in {"info", "warn", "error"}

\* whether the tier's entry points append getFileLine() to the prefix
TierFileLine(tier) == tier \in {"warn", "error"}

\* (mutant of TierExits) the Warn entry points end in os.Exit(1) too
TierExitsWarn(tier) == tier \in {"warn", "error"}

\* whether the tier's entry points end in os.Exit(1)
TierExits(tier) == tier = "error"

\* the prefix the entry point renders: getPrefix(color) [+ getFileLine()]
PrefixPiece(t) ==
    Piece(t, "prefix", getPrefix(t.call),
          IF TierFileLine(t.call.tier) THEN getFileLine(t.call) ELSE FALSE)

\* (mutant of EmitLock) the entry point goes on without outputMutex
EmitNoLock(p) ==
    /\ exited = <<>>
    /\ thr[p].pc = "out_lock"
    /\ thr' = [thr EXCEPT ![p].pc = "use_prefix"]
    /\ UNCHANGED <<activeLevel, mu, outputMutex, output, usePrefix, mainPrefixName,
                   sink, exited, nops>>

\* outputMutex.Lock() of an entry point whose message is not skipped
EmitLock(p) ==
    /\ exited = <<>>
    /\ thr[p].pc = "out_lock"
    /\ outputMutex = NoThread
    /\ outputMutex' = p
    /\ thr' = [thr EXCEPT ![p].pc = "use_prefix"]
    /\ UNCHANGED <<activeLevel, mu, output, usePrefix, mainPrefixName, sink, exited, nops>>

\* if <tier>UsePrefix {
EmitUsePrefix(p) ==
    /\ exited = <<>>
    /\ thr[p].pc = "use_prefix"
    /\ thr' = [thr EXCEPT ![p].prefixed = <<usePrefix[thr[p].call.tier]>>,
                          ![p].pc = IF usePrefix[thr[p].call.tier] THEN "prefix" ELSE "body"]
    /\ UNCHANGED <<activeLevel, mu, outputMutex, output, usePrefix, mainPrefixName,
                   sink, exited, nops>>

\* prefix := getPrefix(...) [+ getFileLine()]; fmt.Fprint(<tier>Output, prefix)
EmitPrefix(p) ==
    /\ exited = <<>>
    /\ thr[p].pc = "prefix"
    /\ sink' = Fprint(output[thr[p].call.tier], PrefixPiece(thr[p]))
    /\ thr' = [thr EXCEPT ![p].pc = "body"]
    /\ UNCHANGED <<activeLevel, mu, outputMutex, output, usePrefix, mainPrefixName,
                   exited, nops>>

\* fmt.Fprint(<tier>Output, args...), fmt.Fprintf(<tier>Output, format, args...)
\* or fmt.Fprintln(<tier>Output, args...)
EmitBody(p) ==
    /\ exited = <<>>
    /\ thr[p].pc = "body"
    /\ sink' = Fprint(output[thr[p].call.tier],
                      Piece(thr[p], IF thr[p].call.variant = "println" THEN "line" ELSE "body",
                            <<>>, FALSE))
    /\ thr' = [thr EXCEPT ![p].pc = IF thr[p].call.variant = "println" THEN "return"
                                    ELSE "newline"]
    /\ UNCHANGED <<activeLevel, mu, outputMutex, output, usePrefix, mainPrefixName,
                   exited, nops>>

\* fmt.Fprintln(<tier>Output)
EmitNewline(p) ==
    /\ exited = <<>>
    /\ thr[p].pc = "newline"
    /\ sink' = Fprint(output[thr[p].call.tier], Piece(thr[p], "newline", <<>>, FALSE))
    /\ thr' = [thr EXCEPT ![p].pc = "return"]
    /\ UNCHANGED <<activeLevel, mu, outputMutex, output, usePrefix, mainPrefixName,
                   exited, nops>>

\* (mutant of EmitReturn) the entry point returns without the deferred
\* outputMutex.Unlock()
EmitReturnNoUnlock(p) ==
    /\ exited = <<>>
    /\ thr[p].pc = "return"
    /\ ~TierExits(thr[p].call.tier)
    /\ thr' = [thr EXCEPT ![p].pc = "done"]
    /\ UNCHANGED <<activeLevel, mu, outputMutex, output, usePrefix, mainPrefixName,
                   sink, exited, nops>>

\* Debug*, Info*, Warn*: the end of the function, the deferred outputMutex.Unlock()
EmitReturn(p) ==
    /\ exited = <<>>
    /\ thr[p].pc = "return"
    /\ ~TierExits(thr[p].call.tier)
    /\ outputMutex' = NoThread
    /\ thr' = [thr EXCEPT ![p].pc = "done"]
    /\ UNCHANGED <<activeLevel, mu, output, usePrefix, mainPrefixName, sink, exited, nops>>

\* Fatal*: os.Exit(1); the process ends, deferred calls do not run
EmitExit(p) ==
    /\ exited = <<>>
    /\ thr[p].pc = "return"
    /\ TierExits(thr[p].call.tier)
    /\ exited' = <<1>>
    /\ thr' = [thr EXCEPT ![p].pc = "exit"]
    /\ UNCHANGED <<activeLevel, mu, outputMutex, output, usePrefix, mainPrefixName,
                   sink, nops>>

(***************************************************************************)
(* Configuration                                                            *)
(***************************************************************************)
\* Set<Tier>Output: outputMutex.Lock()
SetOutputLock(p) ==
    /\ exited = <<>>
    /\ thr[p].pc = "output_lock"
    /\ outputMutex = NoThread
    /\ outputMutex' = p
    /\ thr' = [thr EXCEPT ![p].pc = "output_store"]
    /\ UNCHANGED <<activeLevel, mu, output, usePrefix, mainPrefixName, sink, exited, nops>>

\* Set<Tier>Output: <tier>Output = w; the deferred outputMutex.Unlock()
SetOutputStore(p) ==
    /\ exited = <<>>
    /\ thr[p].pc = "output_store"
    /\ output' = [output EXCEPT ![thr[p].call.tier] = thr[p].call.w]
    /\ outputMutex' = NoThread
    /\ thr' = [thr EXCEPT ![p].pc = "done"]
    /\ UNCHANGED <<activeLevel, mu, usePrefix, mainPrefixName, sink, exited, nops>>

\* Set<Tier>Prefix: <tier>UsePrefix = usePrefix
SetPrefixStore(p) ==
    /\ exited = <<>>
    /\ thr[p].pc = "prefix_store"
    /\ usePrefix' = [usePrefix EXCEPT ![thr[p].call.tier] = thr[p].call.flag]
    /\ thr' = [thr EXCEPT ![p].pc = "done"]
    /\ UNCHANGED <<activeLevel, mu, outputMutex, output, mainPrefixName, sink, exited, nops>>

\* SetMainPrefixName: mainPrefixName = name
SetMainPrefixNameStore(p) ==
    /\ exited = <<>>
    /\ thr[p].pc = "name_store"
    /\ mainPrefixName' = thr[p].call.name
    /\ thr' = [thr EXCEPT ![p].pc = "done"]
    /\ UNCHANGED <<activeLevel, mu, outputMutex, output, usePrefix, sink, exited, nops>>

(***************************************************************************)
(* Paths, call sites and the calls a host program makes                     *)
(***************************************************************************)
pEmpty == <<>>
pDot == <<".">>
pA == <<"a">>
pAB == <<"a", "/", "b">>
pABC == <<"a", "/", "b", "/", "c">>
fABF == <<"a", "/", "b", ".", "F">>
fABCF == <<"a", "/", "b", "/", "c", ".", "F">>
fMain == <<"main", ".", "main">>

\* a level above every severity the package names
LevelOff == LevelError + 4

\* the state after package initialization
Init ==
    /\ activeLevel = NoLevels
    /\ mu = NoThread
    /\ outputMutex = NoThread
    /\ output = [t \in Tiers |-> "stderr"]
    /\ usePrefix = [t \in Tiers |-> TRUE]
    /\ mainPrefixName = <<>>
    /\ sink = [w \in Writers |-> <<>>]
    /\ exited = <<>>
    /\ thr = [p \in Threads |-> Idle]
    /\ nops = 0

(***************************************************************************)
(* Spec: two threads call the emitter and the configuration functions of    *)
(* part_001 concurrently.                                                   *)
(***************************************************************************)
Calls ==
    {EmitCall(t, v, fMain, TRUE) : t \in Tiers, v \in {"print", "println"}}
    \cup {SetPathLevelCall(pDot, l) : l \in {LevelInfo, LevelOff}}
    \cup {SetOutputCall(t, "buf") : t \in {"warn", "error"}}
    \cup {SetPrefixCall(t, FALSE) : t \in {"debug", "error"}}
    \cup {SetMainPrefixNameCall(<<"app">>)}

Next ==
    \E p \in Threads :
        \/ nops < MaxOps /\ \E c \in Calls : Call(p, c)
        \/ SetPathLevelLock(p)
        \/ SetPathLevelStore(p)
        \/ PathLevelLock(p)
        \/ PathLevelReturn(p)
        \/ EmitLock(p)
        \/ EmitUsePrefix(p)
        \/ EmitPrefix(p)
        \/ EmitBody(p)
        \/ EmitNewline(p)
        \/ EmitReturn(p)
        \/ EmitExit(p)
        \/ SetOutputLock(p)
        \/ SetOutputStore(p)
        \/ SetPrefixStore(p)
        \/ SetMainPrefixNameStore(p)

Spec == Init /\ [][Next]_vars

(***************************************************************************)
(* SpecEmit: one thread calls the emitter and the configuration functions   *)
(* of part_001, one call after the other.                                   *)
(***************************************************************************)
EmitCalls ==
    {EmitCall(t, v, c[1], c[2]) :
        t \in Tiers, v \in Variants, c \in {<<fABF, TRUE>>, <<fMain, TRUE>>, <<pEmpty, FALSE>>}}
    \cup {SetPathLevelCall(fABF, l) : l \in {LevelDebug, LevelInfo, LevelWarn, LevelError, LevelOff}}
    \cup {SetPathLevelCall(k, l) : k \in {pDot, pAB}, l \in {LevelWarn, LevelOff}}
    \cup {SetOutputCall(t, w) : t \in Tiers, w \in Writers}
    \cup {SetPrefixCall(t, b) : t \in Tiers, b \in BOOLEAN}
    \cup {SetMainPrefixNameCall(n) : n \in {<<>>, <<"app">>}}

NextEmit ==
    \E p \in {"t1"} :
        \/ nops < MaxOps /\ \E c \in EmitCalls : Call(p, c)
        \/ SetPathLevelLock(p)
        \/ SetPathLevelStore(p)
        \/ PathLevelLock(p)
        \/ PathLevelReturn(p)
        \/ EmitLock(p)
        \/ EmitUsePrefix(p)
        \/ EmitPrefix(p)
        \/ EmitBody(p)
        \/ EmitNewline(p)
        \/ EmitReturn(p)
        \/ EmitExit(p)
        \/ SetOutputLock(p)
        \/ SetOutputStore(p)
        \/ SetPrefixStore(p)
        \/ SetMainPrefixNameStore(p)

SpecEmit == Init /\ [][NextEmit]_vars

(***************************************************************************)
(* SpecReg: the registry.  Two threads call SetPathLevel, PathLevel and     *)
(* the skip of each version; a call starts when no call is in progress.     *)
(***************************************************************************)
MaxRegOps == 3

RegKeys == {pDot, pA, pAB, pABC, fABF}
RegLevels == {LevelInfo, LevelError}

RegCalls ==
    {SetPathLevelCall(k, l) : k \in RegKeys, l \in RegLevels}
    \cup {PathLevelCall(k) : k \in {pEmpty, pA, pAB, fABF, pABC, fABCF}}
    \cup {SkipCall(v, t, fABF, TRUE) : v \in {"clog.go", "part_000", "part_001"},
                                       t \in {"debug", "warn"}}

NextReg ==
    \E p \in Threads :
        \/ /\ nops < MaxRegOps
           /\ \A q \in Threads : ~Running(q)
           /\ \E c \in RegCalls : Call(p, c)
        \/ SetPathLevelLock(p)
        \/ SetPathLevelStore(p)
        \/ PathLevelLock(p)
        \/ PathLevelReturn(p)
        \/ SkipReturn(p)

SpecReg == Init /\ [][NextReg]_vars

(***************************************************************************)
(* What the properties below read                                           *)
(***************************************************************************)
\* the Write calls writer w received from call id, in order
Pieces(w, id) == SelectSeq(sink[w], LAMBDA r : r.id = id)

Parts(pieces) == [i \in 1..Len(pieces) |-> pieces[i].part]

\* the write sequences of one call: optional prefix, body, newline
WriteSequences ==
    {<<"body", "newline">>, <<"line">>, <<"prefix", "body", "newline">>, <<"prefix", "line">>}

IsPrefixOf(a, b) == Len(a) <= Len(b) /\ a = SubSeq(b, 1, Len(a))

\* no call started after the call of thread p
Latest(p) == \A q \in Threads \ {p} : thr[q].id < thr[p].id

\* the parent of a path: the path without its last "/"-delimited segment;
\* "." (or "/") is the root
ParentOf(path) ==
    LET i == LastIndex(path, "/")
    IN IF i = 0 THEN <<".">>
       ELSE IF i = 1 THEN <<"/">>
       ELSE SubSeq(path, 1, i - 1)

\* path, its parent, the parent of its parent, ..., the root
RECURSIVE Ascent(_)
Ascent(path) ==
    IF ParentOf(path) = path THEN <<path>>
    ELSE <<path>> \o Ascent(ParentOf(path))

\* the entry of the first registered path of a sequence of paths: <<level, ok>>
FirstRegistered(m, paths) ==
    LET I == {i \in 1..Len(paths) : paths[i] \in DOMAIN m}
    IN IF I = {} THEN <<0, FALSE>> ELSE <<m[paths[SetMin(I)]], TRUE>>

(***************************************************************************)
(* C1 (SpecEmit)                                                            *)
(***************************************************************************)
\* the override that applies to a call site: what the lookup from the function
\* path finds in the registry, else what the lookup from the package path finds
Applies(m, funcPath, pkgPath) ==
    IF PathLevel(m, funcPath)[2] THEN PathLevel(m, funcPath) ELSE PathLevel(m, pkgPath)

\* C1: once skip has returned in an emission call of severity s, the call is
\* skipped exactly if an override applies to its call site and its threshold t
\* is > s; a skipped call returns with no Write on any writer; a call that is
\* not skipped (t <= s, or no override) has, when it ends, made exactly one
\* write sequence (optional prefix, body, newline) on the writer of its own
\* tier, and it never writes on another writer.
C1_ThresholdDecidesWrites ==
    \A p \in Threads :
        LET t == thr[p]
            s == TierLevel(t.call.tier)
            ov == Applies(activeLevel, t.funcPath, t.pkgPath)
            suppressed == ov[2] /\ ov[1] > s
            own == output[t.call.tier]
        IN (t.call.op = "emit" /\ t.skipped # <<>>) =>
              /\ t.skipped = <<suppressed>>
              /\ suppressed => t.pc = "done" /\ \A w \in Writers : Pieces(w, t.id) = <<>>
              /\ \A w \in Writers \ {own} : Pieces(w, t.id) = <<>>
              /\ (~suppressed /\ t.pc \in {"done", "exit"}) =>
                     Parts(Pieces(own, t.id)) \in WriteSequences

\* an emission call whose override equals its own severity has returned after
\* writing prefix, body and newline
C1_Witness ==
    \E p \in Threads :
        /\ thr[p].call.op = "emit"
        /\ thr[p].pc = "done"
        /\ thr[p].by = "func"
        /\ thr[p].res = <<TierLevel(thr[p].call.tier), TRUE>>
        /\ Parts(Pieces(output[thr[p].call.tier], thr[p].id)) = <<"prefix", "body", "newline">>

(***************************************************************************)
(* C7 (SpecEmit)                                                            *)
(***************************************************************************)
\* C7: in an emission call whose stack inspection fails, function path and
\* package path are empty, skip finds no override and does not skip the
\* message, whatever the registry holds, and the prefix it writes has neither
\* the package tag nor the file:line tag.
C7_UnresolvedCallerNotSuppressed ==
    \A p \in Threads :
        LET t == thr[p]
        IN (t.call.op = "emit" /\ ~t.call.ok) =>
              /\ t.funcPath = <<>> /\ t.pkgPath = <<>>
              /\ t.skipped # <<>> => t.skipped = <<FALSE>> /\ t.by = "none"
              /\ \A w \in Writers : \A i \in 1..Len(sink[w]) :
                    (sink[w][i].id = t.id /\ sink[w][i].part = "prefix") =>
                        sink[w][i].pkg = <<>> /\ ~sink[w][i].fileLine

(***************************************************************************)
(* C9 (SpecEmit)                                                            *)
(***************************************************************************)
\* the package name of the call sites of the model
PackageNameOf(fn) ==
    CASE fn = fABF -> <<"b">>
      [] fn = fABCF -> <<"c">>
      [] fn = fMain -> IF mainPrefixName = <<>> THEN <<"main">> ELSE mainPrefixName

\* what the writer of a tier receives from a call that is not skipped
ExpectedPieces(t) ==
    LET c == t.call
        piece(part) == [id |-> t.id, tier |-> c.tier, part |-> part, pkg |-> <<>>,
                        fileLine |-> FALSE]
        tag == [id |-> t.id, tier |-> c.tier, part |-> "prefix", pkg |-> PackageNameOf(c.fn),
                fileLine |-> c.tier \in {"warn", "error"}]
    IN (IF usePrefix[c.tier] THEN <<tag>> ELSE <<>>)
       \o (IF c.variant = "println" THEN <<piece("line")>>
           ELSE <<piece("body"), piece("newline")>>)

\* C9: a call with a resolvable caller that is not skipped has, when it ends,
\* written on the writer of its tier: if its tier's prefix flag is enabled the
\* package-name tag, with the file:line tag for warn and error only, then body
\* and newline; if the flag is disabled only body and newline; nothing on any
\* other writer; only the flag and the writer of its own tier are read.
\* Initially the four flags are enabled and the four writers are stderr.
C9_PrefixPerTier ==
    /\ nops = 0 => \A t \in Tiers : usePrefix[t] /\ output[t] = "stderr"
    /\ \A p \in Threads :
          LET t == thr[p]
          IN (t.call.op = "emit" /\ t.call.ok /\ t.skipped = <<FALSE>>
                /\ t.pc \in {"done", "exit"}) =>
                /\ Pieces(output[t.call.tier], t.id) = ExpectedPieces(t)
                /\ \A w \in Writers \ {output[t.call.tier]} : Pieces(w, t.id) = <<>>

\* a Warn* call has written its tagged prefix while the flag of another tier
\* is disabled
C9_Witness ==
    \E p \in Threads :
        /\ thr[p].call.op = "emit"
        /\ thr[p].call.tier = "warn"
        /\ thr[p].pc = "done"
        /\ ~usePrefix["info"]
        /\ Len(Pieces(output["warn"], thr[p].id)) >= 2
        /\ Pieces(output["warn"], thr[p].id)[1].fileLine

(***************************************************************************)
(* C5 (Spec)                                                                *)
(***************************************************************************)
\* the ids of the calls writer w received a Write from
IdsOn(w) == {sink[w][i].id : i \in 1..Len(sink[w])}

\* the thread that is in the write sequence of call id, if any
Writing(id) ==
    {p \in Threads : thr[p].id = id /\ thr[p].pc \in {"use_prefix", "prefix", "body", "newline"}}

\* C5: what a writer received is a concatenation of whole per-call write
\* sequences, whatever the tiers of the calls: the Writes of one call are
\* contiguous, they are prefix (optional), body, newline in this order, and
\* only the sequence of the call that is writing now can be incomplete.
C5_NoTornLines ==
    \A w \in Writers :
        /\ \A i \in 1..Len(sink[w]) - 1 :
              (\E k \in i + 1..Len(sink[w]) : sink[w][k].id = sink[w][i].id) =>
                  sink[w][i + 1].id = sink[w][i].id
        /\ \A id \in IdsOn(w) :
              \/ Parts(Pieces(w, id)) \in WriteSequences
              \/ /\ Writing(id) # {}
                 /\ \E ws \in WriteSequences : IsPrefixOf(Parts(Pieces(w, id)), ws)
                 /\ sink[w][Len(sink[w])].id = id

\* a call of one tier is inside its write sequence on a writer while a call of
\* another tier, configured to the same writer, waits for outputMutex
C5_Witness ==
    \E p, q \in Threads :
        /\ thr[p].pc = "newline"
        /\ thr[q].pc = "out_lock"
        /\ thr[p].call.tier # thr[q].call.tier
        /\ output[thr[p].call.tier] = output[thr[q].call.tier]
        /\ Len(Pieces(output[thr[p].call.tier], thr[p].id)) = 2

(***************************************************************************)
(* C6 (Spec)                                                                *)
(***************************************************************************)
\* C6: the process has terminated only if a Fatal* call that was not skipped
\* wrote its complete message on the error writer and then exited with
\* status 1, and that call does not return; a Fatal* call that has returned
\* was skipped and wrote nothing (and the process goes on); a thread in any
\* other call (Debug*, Info*, Warn*, configuration) never terminates the
\* process.
C6_OnlyFatalTerminates ==
    /\ exited # <<>> =>
          /\ exited = <<1>>
          /\ \E p \in Threads : thr[p].pc = "exit"
    /\ \A p \in Threads :
          LET t == thr[p]
          IN /\ t.pc = "exit" =>
                   /\ t.call.op = "emit" /\ t.call.tier = "error"
                   /\ t.skipped = <<FALSE>>
                   /\ exited = <<1>>
                   /\ Parts(Pieces(output["error"], t.id)) \in WriteSequences
             /\ (t.call.op = "emit" /\ t.call.tier = "error" /\ t.pc = "done") =>
                   /\ t.skipped = <<TRUE>>
                   /\ \A w \in Writers : Pieces(w, t.id) = <<>>
             /\ (t.call.op = "emit" /\ t.call.tier = "error" /\ t.skipped = <<FALSE>>) =>
                   t.pc # "done"

\* the process has exited from a Fatal* call whose message is complete on
\* its sink, after a call of a lower tier of the other thread wrote its
\* message and returned
C6_Witness ==
    \E p, q \in Threads :
        /\ exited = <<1>>
        /\ thr[p].pc = "exit" /\ thr[p].skipped = <<FALSE>>
        /\ Parts(Pieces(output["error"], thr[p].id)) \in WriteSequences
        /\ thr[q].pc = "done" /\ thr[q].call.op = "emit" /\ thr[q].call.tier # "error"
        /\ thr[q].skipped = <<FALSE>>

(***************************************************************************)
(* C8 (Spec)                                                                *)
(***************************************************************************)
\* C8: an emission call that started while no configuration call was in
\* progress keeps, at each of its steps, what was in force when it started:
\* the result of skip is the decision the registry gave then, the branch
\* taken at the prefix flag is the flag's value then, and every Write goes to
\* the writer its tier had then, whatever configuration calls other threads
\* make in between.
C8_KeepsSettingsAtStart ==
    \A p \in Threads :
        LET t == thr[p]
        IN (t.call.op = "emit" /\ t.at.quiet) =>
              /\ t.skipped # <<>> => t.skipped = <<t.at.skip>>
              /\ t.prefixed # <<>> => t.prefixed = <<t.at.pre>>
              /\ \A w \in Writers \ {t.at.out} : Pieces(w, t.id) = <<>>

(***************************************************************************)
(* C2, C3, C4, C10 (SpecReg)                                                *)
(***************************************************************************)
\* the severity a skip call compares with
Cur(t) == TierLevel(t.call.tier)

\* thread p's call has returned and no call started after it: the registry
\* is the one the call ran on
Returned(p, op) == thr[p].call.op = op /\ thr[p].pc = "done" /\ Latest(p)

\* C2: when the registry holds an entry for the function path F of a call
\* site and one for its package path P, skip(s) of each of the three versions
\* returns (threshold of F > s), whatever the threshold of P is.
C2_FunctionBeatsPackage ==
    \A p \in Threads :
        LET t == thr[p]
            F == getQualifiedPaths(t.call)[2]
            P == getQualifiedPaths(t.call)[1]
        IN (Returned(p, "skip") /\ F \in DOMAIN activeLevel /\ P \in DOMAIN activeLevel) =>
              t.skipped = <<activeLevel[F] > Cur(t)>>

\* C3: skip(s) of part_001 decides by the most specific registered override
\* of the call site: the entry of F, else that of P, else that of the nearest
\* registered ancestor directory of P, else it does not skip.
C3_MostSpecificWins ==
    \A p \in Threads :
        LET t == thr[p]
            F == getQualifiedPaths(t.call)[2]
            P == getQualifiedPaths(t.call)[1]
            ov == FirstRegistered(activeLevel, <<F>> \o Ascent(P))
        IN (Returned(p, "skip") /\ t.call.ver = "part_001") =>
              t.skipped = <<ov[2] /\ ov[1] > Cur(t)>>

\* C4: PathLevel(path) of part_001 returns (level, true) for the level of the
\* first registered key among path, its parent, the parent's parent, ..., the
\* root, and (0, false) exactly when none of them is registered; so with
\* "a/b" registered and neither "a/b/c" nor "a/b/c.F" registered, the lookups
\* of "a/b/c", "a/b/c.F" and "a/b" return the same (level, true).
C4_FirstRegisteredAncestor ==
    \A p \in Threads :
        LET t == thr[p]
        IN Returned(p, "PathLevel") =>
              /\ t.res = FirstRegistered(activeLevel, Ascent(t.call.path))
              /\ t.res[2] <=> \E i \in 1..Len(Ascent(t.call.path)) :
                                  Ascent(t.call.path)[i] \in DOMAIN activeLevel
              /\ ~t.res[2] => t.res[1] = 0
              /\ (/\ pAB \in DOMAIN activeLevel
                  /\ pABC \notin DOMAIN activeLevel
                  /\ fABCF \notin DOMAIN activeLevel
                  /\ t.call.path \in {pAB, pABC, fABCF}) =>
                     t.res = <<activeLevel[pAB], TRUE>>

\* the lookup of "a/b/c.F" has returned the level of "a/b" while "a" is
\* registered with another level
C4_Witness ==
    \E p \in Threads :
        /\ Returned(p, "PathLevel")
        /\ thr[p].call.path = fABCF
        /\ pA \in DOMAIN activeLevel /\ pAB \in DOMAIN activeLevel
        /\ activeLevel[pA] # activeLevel[pAB]
        /\ thr[p].res = <<activeLevel[pAB], TRUE>>

\* thread p's SetPathLevel stores in this step
Stores(p) == thr[p].pc = "set_store" /\ thr'[p].pc = "done"

\* C10: in every step, no entry of the registry is removed; an entry appears
\* or changes only by the store of a SetPathLevel(path, level) call, for that
\* path and to that level; the store leaves path mapped to level and every
\* other entry as it was, and leaves the registry as it is when path is
\* already mapped to level.
C10_LastWriteWins ==
    [][/\ DOMAIN activeLevel \subseteq DOMAIN activeLevel'
       /\ \A k \in DOMAIN activeLevel' :
             (k \notin DOMAIN activeLevel \/ activeLevel'[k] # activeLevel[k]) =>
                 \E p \in Threads :
                     /\ Stores(p)
                     /\ thr[p].call.path = k
                     /\ thr[p].call.level = activeLevel'[k]
       /\ \A p \in Threads :
             Stores(p) =>
                 /\ thr[p].call.path \in DOMAIN activeLevel'
                 /\ activeLevel'[thr[p].call.path] = thr[p].call.level
                 /\ DOMAIN activeLevel' = DOMAIN activeLevel \cup {thr[p].call.path}
                 /\ (/\ thr[p].call.path \in DOMAIN activeLevel
                     /\ activeLevel[thr[p].call.path] = thr[p].call.level) =>
                        activeLevel' = activeLevel]_vars

\* two SetPathLevel calls for one path with different levels have returned,
\* and the registry holds the level of the later one
C10_Witness ==
    \E p, q \in Threads :
        /\ thr[p].call.op = "SetPathLevel" /\ thr[p].pc = "done"
        /\ thr[q].call.op = "SetPathLevel" /\ thr[q].pc = "done"
        /\ thr[p].id < thr[q].id
        /\ thr[p].call.path = thr[q].call.path
        /\ thr[p].call.level # thr[q].call.level
        /\ activeLevel[thr[q].call.path] = thr[q].call.level
        /\ DOMAIN activeLevel = {thr[q].call.path}

(***************************************************************************)
(* C11 (SpecEmit)                                                           *)
(***************************************************************************)
\* thread p takes a step of an emission call (skip and its PathLevel
\* lookups included)
EmitStep(p) == thr[p].call.op = "emit" /\ thr'[p].pc # thr[p].pc /\ thr'[p].id = thr[p].id

\* C11: only the store of SetPathLevel changes the registry: every step of
\* an emission entry point, its skip and the PathLevel lookups of skip
\* (found at the path, found at an ancestor, not found) leaves activeLevel as
\* it is, and the store of SetPathLevel(path, level) leaves the entry of every
\* other path as it is.
C11_OnlySetPathLevelWrites ==
    [][/\ activeLevel' # activeLevel => \E p \in Threads : Stores(p)
       /\ \A p \in Threads : EmitStep(p) => activeLevel' = activeLevel
       /\ \A p \in Threads :
             Stores(p) =>
                 \A k \in DOMAIN activeLevel \ {thr[p].call.path} :
                     k \in DOMAIN activeLevel' /\ activeLevel'[k] = activeLevel[k]]_vars

\* an emission call whose function-path lookup found the entry of an
\* ancestor has returned, and the registry holds that entry only
C11_Witness ==
    \E p \in Threads :
        /\ thr[p].call.op = "emit" /\ thr[p].pc = "done"
        /\ thr[p].by = "func"
        /\ thr[p].funcPath \notin DOMAIN activeLevel
        /\ Cardinality(DOMAIN activeLevel) = 1

(***************************************************************************)
(* C12 (SpecEmit)                                                           *)
(***************************************************************************)
\* thread p is at `prefix := getPrefix(...)`: its next step inspects the call
\* stack (callerName in getPrefix and getFileLine) and formats the prefix
AtGetPrefix(p) == thr[p].call.op = "emit" /\ thr[p].pc = "prefix"

\* C12: a thread that is about to inspect the call stack and format the
\* prefix holds neither the registry lock nor the output lock.
C12_MinimalLockScope ==
    \A p \in Threads : AtGetPrefix(p) => mu # p /\ outputMutex # p

(***************************************************************************)
(* C13 (Spec)                                                               *)
(***************************************************************************)
\* the shared variable the next step of thread p writes (<<>>: none)
WritesVar(p) ==
    CASE thr[p].pc = "set_store" -> <<"activeLevel">>
      [] thr[p].pc = "output_store" -> <<"output", thr[p].call.tier>>
      [] thr[p].pc = "prefix_store" -> <<"usePrefix", thr[p].call.tier>>
      [] OTHER -> <<>>

\* the shared variable the next step of thread p reads (<<>>: none)
ReadsVar(p) ==
    CASE thr[p].pc \in {"get", "func", "pkg"} -> <<"activeLevel">>
      [] thr[p].pc \in {"prefix", "body", "newline"} -> <<"output", thr[p].call.tier>>
      [] thr[p].pc = "use_prefix" -> <<"usePrefix", thr[p].call.tier>>
      [] OTHER -> <<>>

\* C13: in no reachable state is one thread about to write the registry, a
\* tier's sink reference or a tier's prefix flag while another thread is
\* about to read or write the same variable: the lock that guards the
\* variable admits one of them at a time.
C13_NoUnguardedAccess ==
    \A p, q \in Threads :
        (p # q /\ WritesVar(p) # <<>>) =>
            WritesVar(p) \notin {WritesVar(q), ReadsVar(q)}

(***************************************************************************)
(* SpecSkip: one call site emits while the overrides of its function and    *)
(* of its package are set concurrently.                                     *)
(***************************************************************************)
MaxSkipOps == 3

SkipCalls ==
    {EmitCall(t, "print", fABF, TRUE) : t \in {"debug", "warn"}}
    \cup {SetPathLevelCall(k, l) : k \in {fABF, pAB}, l \in {LevelDebug, LevelError}}

NextSkip ==
    \E p \in Threads :
        \/ nops < MaxSkipOps /\ \E c \in SkipCalls : Call(p, c)
        \/ SetPathLevelLock(p)
        \/ SetPathLevelStore(p)
        \/ PathLevelLock(p)
        \/ PathLevelReturn(p)
        \/ EmitLock(p)
        \/ EmitUsePrefix(p)
        \/ EmitPrefix(p)
        \/ EmitBody(p)
        \/ EmitNewline(p)
        \/ EmitReturn(p)

SpecSkip == Init /\ [][NextSkip]_vars

(***************************************************************************)
(* C14 (SpecSkip)                                                           *)
(***************************************************************************)
\* C14: the decision skip returns in an emission call is the decision its
\* rule (function-path lookup, else package-path lookup, on one registry)
\* gives on at least one of the registry states that existed between the
\* entry of skip and its return.
C14_DecisionLinearizable ==
    \A p \in Threads :
        (thr[p].call.op = "emit" /\ thr[p].skipped # <<>>) =>
            thr[p].skipped[1] \in thr[p].lin

(***************************************************************************)
(* SpecLive: two threads call the functions that return, that is every      *)
(* function but the Fatal ones, under a fair scheduler and fair mutexes.    *)
(***************************************************************************)
MaxLiveOps == 2

LiveCalls ==
    {EmitCall("debug", "print", fMain, TRUE), EmitCall("warn", "println", fMain, TRUE)}
    \cup {SetPathLevelCall(pDot, LevelInfo)}
    \cup {PathLevelCall(fMain)}
    \cup {SetOutputCall("warn", "buf")}
    \cup {SetPrefixCall("warn", FALSE)}
    \cup {SetMainPrefixNameCall(<<"app">>)}

\* a step of a call of thread p that takes no lock
Step(p) ==
    \/ SetPathLevelStore(p)
    \/ PathLevelReturn(p)
    \/ EmitUsePrefix(p)
    \/ EmitPrefix(p)
    \/ EmitBody(p)
    \/ EmitNewline(p)
    \/ EmitReturn(p)
    \/ SetOutputStore(p)
    \/ SetPrefixStore(p)
    \/ SetMainPrefixNameStore(p)

\* mu.Lock() or outputMutex.Lock() of a call of thread p
Lock(p) ==
    \/ SetPathLevelLock(p)
    \/ PathLevelLock(p)
    \/ EmitLock(p)
    \/ SetOutputLock(p)

NextLive ==
    \E p \in Threads :
        \/ nops < MaxLiveOps /\ \E c \in LiveCalls : Call(p, c)
        \/ Step(p)
        \/ Lock(p)

\* a runnable goroutine is scheduled (weak fairness of its steps); a
\* goroutine waiting in Lock() gets the mutex if it is free again and again
\* (sync.Mutex hands over to a starving waiter)
SpecLive ==
    Init /\ [][NextLive]_vars /\ \A p \in Threads : WF_vars(Step(p)) /\ SF_vars(Lock(p))

(***************************************************************************)
(* C15 (SpecLive)                                                           *)
(***************************************************************************)
\* the locks thread p holds
Held(p) == {l \in {"mu", "outputMutex"} :
               (l = "mu" /\ mu = p) \/ (l = "outputMutex" /\ outputMutex = p)}

\* C15: no thread holds mu and outputMutex at the same time, a thread whose
\* call has returned holds no lock, and, under fair scheduling, every call
\* that is in progress eventually returns.
C15_LocksReleasedCallsComplete ==
    /\ [](\A p \in Threads :
             /\ Cardinality(Held(p)) <= 1
             /\ ~Running(p) => Held(p) = {})
    /\ \A p \in Threads : Running(p) ~> ~Running(p)

\* a call waits for outputMutex while a call of the other thread, started
\* after it, holds the lock
C15_Witness ==
    \E p, q \in Threads :
        /\ p # q
        /\ thr[p].pc \in {"out_lock", "output_lock"}
        /\ outputMutex = q /\ Running(q)
        /\ thr[q].id > 1 /\ thr[p].id # thr[q].id

(***************************************************************************)
(* C16 (Spec)                                                               *)
(***************************************************************************)
\* the Fatal* call of thread p was not skipped and is past outputMutex.Lock()
FatalLocked(p) ==
    /\ thr[p].call.op = "emit" /\ thr[p].call.tier = "error"
    /\ thr[p].pc \in {"use_prefix", "prefix", "body", "newline", "return", "exit"}

\* C16: from the moment a Fatal* call that is not skipped has acquired
\* outputMutex, it holds the lock in every later state; every Write a writer
\* receives is a Write of that call; no sink reference changes; and when the
\* process has exited the last Write the error writer received is the
\* newline of the fatal message.
C16_FatalMessageIsLast ==
    /\ [](\A p \in Threads :
             /\ FatalLocked(p) => outputMutex = p
             /\ thr[p].pc = "exit" =>
                   LET w == sink[output["error"]]
                   IN /\ w # <<>>
                      /\ w[Len(w)].id = thr[p].id
                      /\ w[Len(w)].part \in {"newline", "line"})
    /\ [][\A p \in Threads :
             FatalLocked(p) =>
                 /\ outputMutex' = p
                 /\ output' = output
                 /\ \A w \in Writers :
                       sink'[w] # sink[w] =>
                           /\ Len(sink'[w]) = Len(sink[w]) + 1
                           /\ sink'[w][Len(sink'[w])].id = thr[p].id]_vars

\* the process has exited from a Fatal* call while a call of the other
\* thread that started before the exit still waits for outputMutex
C16_Witness ==
    \E p, q \in Threads :
        /\ exited = <<1>>
        /\ thr[p].pc = "exit" /\ outputMutex = p
        /\ thr[q].pc \in {"out_lock", "output_lock"}

(***************************************************************************)
(* C17 (SpecEmit)                                                           *)
(***************************************************************************)
\* the four named severities
NamedLevels == {LevelDebug, LevelInfo, LevelWarn, LevelError}

\* C17: while every threshold in the registry is a named severity, a Fatal*
\* call whose skip has returned was not skipped, does not return and has
\* written its message when the process exits; a call of severity s is
\* skipped exactly if the override its lookups find is strictly above s; and
\* an override equal to s does not skip it.
C17_NamedLevelsNeverSilenceFatal ==
    \A p \in Threads :
        LET t == thr[p]
            s == TierLevel(t.call.tier)
            ov == Applies(activeLevel, t.funcPath, t.pkgPath)
        IN (/\ t.call.op = "emit" /\ t.skipped # <<>>
            /\ \A k \in DOMAIN activeLevel : activeLevel[k] \in NamedLevels) =>
              /\ t.call.tier = "error" =>
                    /\ t.skipped = <<FALSE>>
                    /\ t.pc # "done"
                    /\ t.pc = "exit" =>
                          Parts(Pieces(output["error"], t.id)) \in WriteSequences
              /\ t.skipped = <<ov[2] /\ ov[1] \in NamedLevels /\ ov[1] > s>>
              /\ (ov[2] /\ ov[1] = s) => t.skipped = <<FALSE>>

\* a Fatal* call whose function has the override LevelError has written its
\* message and exited
C17_Witness ==
    \E p \in Threads :
        /\ thr[p].call.op = "emit" /\ thr[p].call.tier = "error"
        /\ thr[p].pc = "exit"
        /\ thr[p].by = "func" /\ thr[p].res = <<LevelError, TRUE>>
        /\ Parts(Pieces(output["error"], thr[p].id)) \in WriteSequences

=============================================================================
